---- MODULE Spec2Model ----
(***************************************************************************)
(* A model of the scene manager (SceneManager.cpp) and of the view manager *)
(* (ViewManager.cpp) of the CS-330 desk scene.                             *)
(*                                                                         *)
(* Numbers are integers: a length or a coordinate is counted in units of   *)
(* 1/20, a direction vector in units of 1/10, the movement speed in steps  *)
(* of 0.5, an angle in whole degrees (multiples of 90, for which sine and  *)
(* cosine are exact), time in whole ticks.  The calls of RenderScene carry *)
(* the literals of the source: a scale or a position in hundredths, an     *)
(* angle in hundredths of a degree, a color in tenths, a material or light *)
(* value in thousandths.                                                   *)
(***************************************************************************)
EXTENDS Integers, Sequences, FiniteSets, TLC

VARIABLES
    \* ---- SceneManager
    m_pShaderManager,   \* the shader manager collaborator, or NULL
    m_textureIDs,       \* the texture array: cell -> [ID, tag]
    m_loadedTextures,   \* the number of registered textures
    m_objectMaterials,  \* the material list (std::vector, append only)
    m_basicMeshes,      \* the mesh kinds ShapeMeshes holds loaded
    \* ---- ShaderManager and OpenGL state, as far as the two files drive it
    uniforms,           \* uniform name -> <<>> (never set) or <<value>>
    glNames,            \* the number of texture names glGenTextures gave out
    glActiveUnit,       \* the active texture unit
    glUnits,            \* texture unit -> the texture name bound to it, 0 = none
    \* ---- ViewManager and its file-scope globals
    m_pWindow,
    g_pCamera,
    gLastX,
    gLastY,
    gFirstMouse,
    gDeltaTime,
    gLastFrame,
    bOrthographicProjection,
    gMovementSpeed,
    \* ---- GLFW state, as far as ViewManager.cpp drives it
    glfwTime,           \* the clock glfwGetTime reads
    glfwTerminated,     \* glfwTerminate was called
    glfwWindows,        \* the number of windows glfwCreateWindow made
    glfwCallbacks,      \* window -> the callbacks registered on it
    glfwShouldClose,    \* the windows asked to close
    glfwContext,        \* the window whose context is current, or NULL
    glfwCursorMode,     \* window -> its cursor mode
    glBlend,            \* blending: off, or the blend function set
    \* ---- the observer
    ret,                \* the last call: its name, arguments and result
    lastProjectionKey   \* the projection key processed last: "none", "P" or "O"

sceneVars == <<m_pShaderManager, m_textureIDs, m_loadedTextures, m_objectMaterials,
               m_basicMeshes>>
glVars    == <<glNames, glActiveUnit, glUnits>>
viewVars  == <<m_pWindow, g_pCamera, gLastX, gLastY, gFirstMouse, gDeltaTime,
               gLastFrame, bOrthographicProjection, gMovementSpeed,
               lastProjectionKey>>
glfwVars  == <<glfwTime, glfwTerminated, glfwWindows, glfwCallbacks, glfwShouldClose,
               glfwContext, glfwCursorMode, glBlend>>
vars      == <<sceneVars, glVars, viewVars, glfwVars, uniforms, ret>>

NULL == "NULL"

(***************************************************************************)
(* Bounds of the model and constants of the program.                       *)
(***************************************************************************)
\* the texture array has 16 cells ("There are up to 16 slots")
TextureSlots == 16
\* the registry sizes, texture names and material-list lengths explored
MaxLoaded == 3
MaxGLNames == 4
MaxMaterials == 2

Tags == {"floor", "plank"}
LookupTags == Tags \cup {"poster"}
MaterialTags == {"wood", "glass"}
LookupMaterialTags == MaterialTags \cup {"clay"}

\* the cells the model keeps: the array 0..15 and the memory right behind it
Cells == 0..TextureSlots
NoTexture == [ID |-> 0, tag |-> ""]

\* the uniforms SetupSceneLights sets for the four light sources
LightUniforms ==
    {"lightSources[0].position", "lightSources[0].ambientColor",
     "lightSources[0].diffuseColor", "lightSources[0].specularColor",
     "lightSources[0].focalStrength", "lightSources[0].specularIntensity",
     "lightSources[1].position", "lightSources[1].ambientColor",
     "lightSources[1].diffuseColor", "lightSources[1].specularColor",
     "lightSources[1].focalStrength", "lightSources[1].specularIntensity",
     "lightSources[2].position", "lightSources[2].ambientColor",
     "lightSources[2].diffuseColor", "lightSources[2].specularColor",
     "lightSources[2].focalStrength", "lightSources[2].specularIntensity",
     "lightSources[3].position", "lightSources[3].ambientColor",
     "lightSources[3].diffuseColor", "lightSources[3].specularColor",
     "lightSources[3].focalStrength", "lightSources[3].specularIntensity"}

UniformNames ==
    {"model", "objectColor", "objectTexture", "bUseTexture", "bUseLighting",
     "UVscale", "material.ambientColor", "material.ambientStrength",
     "material.diffuseColor", "material.specularColor", "material.shininess",
     "view", "projection", "viewPosition"} \cup LightUniforms

Max(a, b) == IF a > b THEN a ELSE b

(***************************************************************************)
(* The texture registry: FindTextureID, FindTextureSlot.                   *)
(***************************************************************************)
RECURSIVE FindTextureIDLoop(_, _, _, _)
FindTextureIDLoop(tag, index, bFound, textureID) ==
    IF (index < m_loadedTextures) /\ (bFound = FALSE)
    THEN IF m_textureIDs[index].tag = tag
         THEN FindTextureIDLoop(tag, index, TRUE, m_textureIDs[index].ID)
         ELSE FindTextureIDLoop(tag, index + 1, bFound, textureID)
    ELSE textureID

FindTextureIDLastMatch(tag) ==
    LET hits == {i \in 0..(m_loadedTextures - 1) : m_textureIDs[i].tag = tag}
    IN  IF hits = {} THEN -1
        ELSE m_textureIDs[CHOOSE i \in hits : \A j \in hits : j <= i].ID

FindTextureID(tag) == FindTextureIDLoop(tag, 0, FALSE, -1)

RECURSIVE FindTextureSlotLoop(_, _, _, _)
FindTextureSlotLoop(tag, index, bFound, textureSlot) ==
    IF (index < m_loadedTextures) /\ (bFound = FALSE)
    THEN IF m_textureIDs[index].tag = tag
         THEN FindTextureSlotLoop(tag, index, TRUE, index)
         ELSE FindTextureSlotLoop(tag, index + 1, bFound, textureSlot)
    ELSE textureSlot

FindTextureSlotZeroDefault(tag) == FindTextureSlotLoop(tag, 0, FALSE, 0)

FindTextureSlot(tag) == FindTextureSlotLoop(tag, 0, FALSE, -1)

(***************************************************************************)
(* The material list: FindMaterial copies the fields of the match into the *)
(* caller's material and returns a flag.                                   *)
(***************************************************************************)
CopyMaterial(material, found) ==
    [material EXCEPT !.ambientColor = found.ambientColor,
                     !.ambientStrength = found.ambientStrength,
                     !.diffuseColor = found.diffuseColor,
                     !.specularColor = found.specularColor,
                     !.shininess = found.shininess]

RECURSIVE FindMaterialLoop(_, _, _, _)
FindMaterialLoop(tag, index, bFound, material) ==
    \* the vector is indexed from 0 in the code, the sequence from 1 here
    IF (index < Len(m_objectMaterials)) /\ (bFound = FALSE)
    THEN IF m_objectMaterials[index + 1].tag = tag
         THEN FindMaterialLoop(tag, index, TRUE,
                               CopyMaterial(material, m_objectMaterials[index + 1]))
         ELSE FindMaterialLoop(tag, index + 1, bFound, material)
    ELSE material

\* the result: the returned flag and the caller's material after the call
FindMaterial(tag, material) ==
    IF Len(m_objectMaterials) = 0
    THEN [bReturn |-> FALSE, material |-> material]
    ELSE [bReturn |-> TRUE,
          material |-> FindMaterialLoop(tag, 0, FALSE, material)]

(***************************************************************************)
(* Uniforms: the shader manager keeps the last value set under each name.  *)
(***************************************************************************)
SetUniform(u, name, value) == [u EXCEPT ![name] = <<value>>]

\* the materials a list may hold in the lookup specification
MaterialPool ==
    { [tag |-> t, ambientColor |-> <<a, a, 2>>, ambientStrength |-> a,
       diffuseColor |-> <<3, a, 1>>, specularColor |-> <<a, 5, 6>>,
       shininess |-> 10 * a] : t \in MaterialTags, a \in {2, 4} }

\* what an OBJECT_MATERIAL local holds before anything is stored in it
IndeterminateMaterials ==
    { [tag |-> "", ambientColor |-> <<g, g, g>>, ambientStrength |-> g,
       diffuseColor |-> <<g, g, g>>, specularColor |-> <<g, g, g>>,
       shininess |-> g] : g \in {0, 7} }

(***************************************************************************)
(* Initial states.                                                         *)
(***************************************************************************)
InitShader ==
    /\ uniforms = [n \in UniformNames |-> <<>>]

InitGL ==
    /\ glNames = 0
    /\ glActiveUnit = 0
    /\ glUnits = [u \in Cells |-> 0]

\* the registry before the first load: no texture is registered
EmptyRegistry ==
    /\ m_textureIDs = [c \in Cells |-> NoTexture]
    /\ m_loadedTextures = 0

InitScene ==
    /\ m_pShaderManager = "shader"
    /\ EmptyRegistry
    /\ m_objectMaterials = <<>>
    /\ m_basicMeshes = {}

InitCamera ==
    [Position |-> <<0, 110, 160>>, Front |-> <<0, -5, -20>>,
     Up |-> <<0, 10, 0>>, Zoom |-> 80]

InitView ==
    /\ m_pWindow = NULL
    /\ g_pCamera = InitCamera
    /\ gLastX = 500
    /\ gLastY = 400
    /\ gFirstMouse = TRUE
    /\ gDeltaTime = 0
    /\ gLastFrame = 0
    /\ bOrthographicProjection = FALSE
    /\ gMovementSpeed = 5
    /\ lastProjectionKey = "none"

InitGLFW ==
    /\ glfwTime = 0
    /\ glfwTerminated = FALSE
    /\ glfwWindows = 0
    /\ glfwCallbacks = <<>>
    /\ glfwShouldClose = {}
    /\ glfwContext = NULL
    /\ glfwCursorMode = <<>>
    /\ glBlend = "off"

InitObserver ==
    /\ ret = [op |-> "none"]

(***************************************************************************)
(* CreateGLTexture(colorChannels, tag): colorChannels is what stbi_load    *)
(* reports for the file, 0 when it cannot decode it.                       *)
(***************************************************************************)
ImageChannels == 0..4

\* glGenTextures(1, &id): the next unused texture name
GenTexture == glNames + 1

\* lines 113-115 with the index inside the array
RegisterTexture(textureID, tag) ==
    /\ m_textureIDs' = [m_textureIDs EXCEPT ![m_loadedTextures] =
                            [ID |-> textureID, tag |-> tag]]
    /\ m_loadedTextures' = m_loadedTextures + 1

\* lines 113-115 with the index behind the array: the stores go out of
\* bounds. They land in the memory behind the array, or on the counter.
RegisterTextureOutOfBounds(textureID, tag) ==
    \/ RegisterTexture(textureID, tag)
    \/ /\ m_loadedTextures' \in 0..TextureSlots
       /\ UNCHANGED m_textureIDs

CreateGLTextureRegistersBadImage(colorChannels, tag) ==
    /\ m_loadedTextures <= TextureSlots
    /\ IF colorChannels = 0
       THEN /\ ret' = [op |-> "CreateGLTexture", colorChannels |-> colorChannels, tag |-> tag, val |-> FALSE]
            /\ UNCHANGED <<m_textureIDs, m_loadedTextures, glVars>>
       ELSE /\ glNames' = glNames + 1
            /\ glUnits' = [glUnits EXCEPT ![glActiveUnit] = 0]
            /\ IF m_loadedTextures < TextureSlots
               THEN RegisterTexture(GenTexture, tag)
               ELSE RegisterTextureOutOfBounds(GenTexture, tag)
            /\ ret' = [op |-> "CreateGLTexture", colorChannels |-> colorChannels, tag |-> tag, val |-> colorChannels \in {3, 4}]
            /\ UNCHANGED glActiveUnit
    /\ UNCHANGED <<m_pShaderManager, m_objectMaterials, m_basicMeshes, uniforms, viewVars, glfwVars>>

CreateGLTexture(colorChannels, tag) ==
    /\ m_loadedTextures <= TextureSlots
    /\ IF colorChannels = 0
       THEN \* stbi_load returned NULL
            /\ ret' = [op |-> "CreateGLTexture", colorChannels |-> colorChannels, tag |-> tag, val |-> FALSE]
            /\ UNCHANGED <<m_textureIDs, m_loadedTextures, glVars>>
       ELSE /\ glNames' = glNames + 1
            /\ IF colorChannels \in {3, 4}
               THEN \* bound, filled, unbound, registered
                    /\ glUnits' = [glUnits EXCEPT ![glActiveUnit] = 0]
                    /\ IF m_loadedTextures < TextureSlots
                       THEN RegisterTexture(GenTexture, tag)
                       ELSE RegisterTextureOutOfBounds(GenTexture, tag)
                    /\ ret' = [op |-> "CreateGLTexture", colorChannels |-> colorChannels, tag |-> tag, val |-> TRUE]
               ELSE \* returns with the new texture still bound
                    /\ glUnits' = [glUnits EXCEPT ![glActiveUnit] = GenTexture]
                    /\ ret' = [op |-> "CreateGLTexture", colorChannels |-> colorChannels, tag |-> tag, val |-> FALSE]
                    /\ UNCHANGED <<m_textureIDs, m_loadedTextures>>
            /\ UNCHANGED glActiveUnit
    /\ UNCHANGED <<m_pShaderManager, m_objectMaterials, m_basicMeshes, uniforms, viewVars, glfwVars>>

(***************************************************************************)
(* BindGLTextures, DestroyGLTextures.                                      *)
(***************************************************************************)
BindGLTextures ==
    /\ glActiveUnit' = IF m_loadedTextures > 0 THEN m_loadedTextures - 1
                       ELSE glActiveUnit
    /\ glUnits' = [u \in Cells |-> IF u < m_loadedTextures
                                   THEN m_textureIDs[u].ID ELSE glUnits[u]]
    /\ ret' = [op |-> "BindGLTextures"]
    /\ UNCHANGED <<sceneVars, glNames, uniforms, viewVars, glfwVars>>

\* the loop calls glGenTextures on every used cell: each ID is replaced by
\* a new name, nothing is deleted
DestroyGLTextures ==
    /\ m_textureIDs' = [c \in Cells |-> IF c < m_loadedTextures
                                        THEN [m_textureIDs[c] EXCEPT !.ID = glNames + c + 1]
                                        ELSE m_textureIDs[c]]
    /\ glNames' = glNames + m_loadedTextures
    /\ ret' = [op |-> "DestroyGLTextures"]
    /\ UNCHANGED <<m_pShaderManager, m_loadedTextures, m_objectMaterials, m_basicMeshes,
                   glActiveUnit, glUnits, uniforms, viewVars, glfwVars>>

(***************************************************************************)
(* Calls of the lookups, and the shader setters that use them.             *)
(***************************************************************************)
CallFindTextureID(tag) ==
    /\ ret' = [op |-> "FindTextureID", tag |-> tag, val |-> FindTextureID(tag)]
    /\ UNCHANGED <<sceneVars, glVars, uniforms, viewVars, glfwVars>>

CallFindTextureSlot(tag) ==
    /\ ret' = [op |-> "FindTextureSlot", tag |-> tag, val |-> FindTextureSlot(tag)]
    /\ UNCHANGED <<sceneVars, glVars, uniforms, viewVars, glfwVars>>

CallFindMaterial(tag, material) ==
    /\ ret' = [op |-> "FindMaterial", tag |-> tag, before |-> material,
               val |-> FindMaterial(tag, material)]
    /\ UNCHANGED <<sceneVars, glVars, uniforms, viewVars, glfwVars>>

\* the uniforms after SetShaderColor: texturing off, then the color
ShaderColorUniforms(u, color) ==
    IF NULL # m_pShaderManager
    THEN SetUniform(SetUniform(u, "bUseTexture", 0), "objectColor", color)
    ELSE u

SetShaderColor(color) ==
    /\ uniforms' = ShaderColorUniforms(uniforms, color)
    /\ ret' = [op |-> "SetShaderColor", color |-> color]
    /\ UNCHANGED <<sceneVars, glVars, viewVars, glfwVars>>

ShaderTextureUniformsKeepsColorWhenUnknown(u, textureTag) ==
    IF (NULL # m_pShaderManager) /\ (FindTextureSlot(textureTag) # -1)
    THEN SetUniform(SetUniform(u, "bUseTexture", 1),
                    "objectTexture", FindTextureSlot(textureTag))
    ELSE u

\* the uniforms after SetShaderTexture: texturing on, then the sampler set
\* to what FindTextureSlot returns
ShaderTextureUniforms(u, textureTag) ==
    IF NULL # m_pShaderManager
    THEN SetUniform(SetUniform(u, "bUseTexture", 1),
                    "objectTexture", FindTextureSlot(textureTag))
    ELSE u

SetShaderTexture(textureTag) ==
    /\ uniforms' = ShaderTextureUniforms(uniforms, textureTag)
    /\ ret' = [op |-> "SetShaderTexture", tag |-> textureTag]
    /\ UNCHANGED <<sceneVars, glVars, viewVars, glfwVars>>

WriteMaterial(u, material) ==
    SetUniform(SetUniform(SetUniform(SetUniform(SetUniform(u,
        "material.ambientColor", material.ambientColor),
        "material.ambientStrength", material.ambientStrength),
        "material.diffuseColor", material.diffuseColor),
        "material.specularColor", material.specularColor),
        "material.shininess", material.shininess)

\* material is the local before FindMaterial stores into it
ShaderMaterialUniforms(u, materialTag, material) ==
    IF Len(m_objectMaterials) > 0
    THEN LET found == FindMaterial(materialTag, material)
         IN  IF found.bReturn = TRUE
             THEN WriteMaterial(u, found.material)
             ELSE u
    ELSE u

SetShaderMaterial(materialTag, material) ==
    /\ uniforms' = ShaderMaterialUniforms(uniforms, materialTag, material)
    /\ ret' = [op |-> "SetShaderMaterial", tag |-> materialTag]
    /\ UNCHANGED <<sceneVars, glVars, viewVars, glfwVars>>

(***************************************************************************)
(* The lookup specification: the registry and the material list hold any   *)
(* content within the bounds, and the lookups are called on it.            *)
(***************************************************************************)
InitLookup ==
    /\ m_pShaderManager = "shader"
    /\ \E n \in 0..MaxLoaded : \E t \in [0..(n - 1) -> Tags] :
          /\ m_loadedTextures = n
          /\ m_textureIDs = [c \in Cells |-> IF c < n
                                             THEN [ID |-> c + 1, tag |-> t[c]]
                                             ELSE NoTexture]
          /\ glNames = n
    /\ glActiveUnit = 0
    /\ glUnits = [u \in Cells |-> 0]
    /\ \E k \in 0..MaxMaterials : m_objectMaterials \in [1..k -> MaterialPool]
    /\ m_basicMeshes = {}
    /\ InitShader /\ InitView /\ InitGLFW /\ InitObserver

NextLookup ==
    \/ \E tag \in LookupTags : CallFindTextureID(tag)
    \/ \E tag \in LookupTags : CallFindTextureSlot(tag)
    \/ \E tag \in LookupMaterialTags, m \in IndeterminateMaterials :
          CallFindMaterial(tag, m)
    \/ \E tag \in LookupMaterialTags, m \in IndeterminateMaterials :
          SetShaderMaterial(tag, m)

SpecLookup == InitLookup /\ [][NextLookup]_vars

(***************************************************************************)
(* Claims about the lookups.                                               *)
(***************************************************************************)
\* the used cells that carry the tag
TextureHits(tag) == {i \in 0..(m_loadedTextures - 1) : m_textureIDs[i].tag = tag}
MaterialHits(tag) ==
    {i \in 1..Len(m_objectMaterials) : m_objectMaterials[i].tag = tag}
Lowest(S) == CHOOSE i \in S : \A j \in S : i <= j

\* C1: for every registry content, the empty one included, FindTextureSlot
\* and FindTextureID return -1 for a tag that no registered entry carries.
C1_UnknownTagIsMinusOne ==
    (ret.op \in {"FindTextureSlot", "FindTextureID"})
        => ((TextureHits(ret.tag) = {}) => (ret.val = -1))

C1_Witness ==
    /\ ret.op = "FindTextureSlot"
    /\ m_loadedTextures >= 2
    /\ TextureHits(ret.tag) = {}
    /\ ret.val = -1

\* C2: with several entries under one tag the lookups return the first
\* match: FindTextureSlot the lowest index carrying the tag, FindTextureID
\* the ID stored there, FindMaterial the fields of the earliest material.
C2_FirstMatchWins ==
    /\ (ret.op = "FindTextureSlot" /\ TextureHits(ret.tag) # {})
          => ret.val = Lowest(TextureHits(ret.tag))
    /\ (ret.op = "FindTextureID" /\ TextureHits(ret.tag) # {})
          => ret.val = m_textureIDs[Lowest(TextureHits(ret.tag))].ID
    /\ (ret.op = "FindMaterial" /\ MaterialHits(ret.tag) # {})
          => LET first == m_objectMaterials[Lowest(MaterialHits(ret.tag))]
                 got == ret.val.material
             IN  /\ got.ambientColor = first.ambientColor
                 /\ got.ambientStrength = first.ambientStrength
                 /\ got.diffuseColor = first.diffuseColor
                 /\ got.specularColor = first.specularColor
                 /\ got.shininess = first.shininess

C2_Witness ==
    /\ ret.op = "FindTextureID"
    /\ Cardinality(TextureHits(ret.tag)) >= 2
    /\ Lowest(TextureHits(ret.tag)) >= 1
    /\ ret.val = m_textureIDs[Lowest(TextureHits(ret.tag))].ID

MaterialUniforms ==
    {"material.ambientColor", "material.ambientStrength",
     "material.diffuseColor", "material.specularColor", "material.shininess"}

\* C3: FindMaterial returns false whenever no entry of the material list
\* carries the tag, for every list content, so that SetShaderMaterial with
\* an unknown tag writes no material uniform.
C3_UnknownMaterialFails ==
    /\ [](ret.op = "FindMaterial" =>
            (MaterialHits(ret.tag) = {} => ret.val.bReturn = FALSE))
    /\ [][(ret'.op = "SetShaderMaterial" /\ MaterialHits(ret'.tag) = {})
            => \A n \in MaterialUniforms : uniforms'[n] = uniforms[n]]_vars

(***************************************************************************)
(* The texture specification: textures are loaded from files that decode   *)
(* or not, with any channel count, bound, looked up and destroyed, within  *)
(* MaxLoaded registered textures and MaxGLNames texture names.             *)
(***************************************************************************)
ColorInputs == {<<1, 5, 10, 10>>, <<5, 10, 10, 10>>}

NextTex ==
    \/ \E colorChannels \in ImageChannels, tag \in Tags :
          /\ m_loadedTextures < MaxLoaded
          /\ glNames < MaxGLNames
          /\ CreateGLTexture(colorChannels, tag)
    \/ BindGLTextures
    \/ /\ glNames + m_loadedTextures <= MaxGLNames
       /\ DestroyGLTextures
    \/ \E tag \in LookupTags : CallFindTextureID(tag)
    \/ \E tag \in LookupTags : CallFindTextureSlot(tag)
    \/ \E tag \in LookupTags : SetShaderTexture(tag)
    \/ \E color \in ColorInputs : SetShaderColor(color)

InitTex ==
    /\ InitScene /\ InitGL /\ InitShader /\ InitView /\ InitGLFW /\ InitObserver

SpecTex == InitTex /\ [][NextTex]_vars

\* C9: when CreateGLTexture fails, because the file cannot be decoded or
\* because the image has a channel count other than 3 or 4, it returns
\* false and registers nothing: m_loadedTextures and every entry are
\* unchanged, and an unknown tag stays unknown to both lookups.
C9_FailedLoadRegistersNothing ==
    [][(ret'.op = "CreateGLTexture" /\ ret'.colorChannels \notin {3, 4}) =>
         /\ ret'.val = FALSE
         /\ m_loadedTextures' = m_loadedTextures
         /\ m_textureIDs' = m_textureIDs
         /\ \A tag \in Tags :
               (FindTextureSlot(tag) = -1) =>
                   (FindTextureSlot(tag)' = -1 /\ FindTextureID(tag)' = -1)]_vars

C9_Witness ==
    /\ ret.op = "CreateGLTexture"
    /\ ret.colorChannels = 2
    /\ ret.val = FALSE
    /\ m_loadedTextures >= 1
    /\ FindTextureSlot(ret.tag) = -1

\* C20: with a shader manager, SetShaderTexture(tag) leaves bUseTexture true
\* and the sampler at what FindTextureSlot(tag) returns; for a tag that no
\* registered entry carries the sampler is -1 and texturing stays on, the
\* object color set before is not fallen back to.
C20_SetShaderTextureUnknownTag ==
    (ret.op = "SetShaderTexture") =>
        /\ uniforms["bUseTexture"] = <<1>>
        /\ uniforms["objectTexture"] = <<FindTextureSlot(ret.tag)>>
        /\ (TextureHits(ret.tag) = {}) => (uniforms["objectTexture"] = <<-1>>)

C20_Witness ==
    /\ ret.op = "SetShaderTexture"
    /\ m_loadedTextures >= 1
    /\ TextureHits(ret.tag) = {}
    /\ uniforms["objectColor"] # <<>>
    /\ uniforms["bUseTexture"] = <<1>>
    /\ uniforms["objectTexture"] = <<-1>>

(***************************************************************************)
(* The filling specification: one texture is loaded again and again, up to *)
(* the end of the array and past it.                                       *)
(***************************************************************************)
NextFill ==
    \/ \E colorChannels \in {3, 4} :
          /\ glNames < TextureSlots + MaxLoaded
          /\ CreateGLTexture(colorChannels, "floor")
    \/ BindGLTextures
    \/ /\ glNames + m_loadedTextures <= TextureSlots + MaxLoaded
       /\ DestroyGLTextures
    \/ \E tag \in LookupTags : CallFindTextureSlot(tag)

SpecFill == InitTex /\ [][NextFill]_vars

C11_AtMostSixteenTextures ==
    /\ m_loadedTextures <= TextureSlots
    /\ \A c \in Cells : (c > TextureSlots - 1) => (m_textureIDs[c] = NoTexture)
    /\ \A u \in Cells : (u > TextureSlots - 1) => (glUnits[u] = 0)

\* the texture objects OpenGL holds: every name glGenTextures gave out, as
\* neither file calls glDeleteTextures
LiveTextures == 1..glNames

\* C12: DestroyGLTextures releases the texture object of every used cell
\* and allocates no new texture object.
C12_DestroyReleasesTextures ==
    [][(ret'.op = "DestroyGLTextures") =>
         /\ glNames' = glNames
         /\ \A c \in 0..(m_loadedTextures - 1) :
               m_textureIDs[c].ID \notin LiveTextures']_vars

(***************************************************************************)
(* SetTransformations: 4x4 matrices as rows of a tuple, multiplied as glm  *)
(* multiplies them (M * v transforms the column vector v).                 *)
(***************************************************************************)
Dot4(a, b) == a[1] * b[1] + a[2] * b[2] + a[3] * b[3] + a[4] * b[4]
Column(B, j) == <<B[1][j], B[2][j], B[3][j], B[4][j]>>
RowTimes(a, B) ==
    <<Dot4(a, Column(B, 1)), Dot4(a, Column(B, 2)),
      Dot4(a, Column(B, 3)), Dot4(a, Column(B, 4))>>
MatMul(A, B) == <<RowTimes(A[1], B), RowTimes(A[2], B), RowTimes(A[3], B), RowTimes(A[4], B)>>

\* cos and sin of glm::radians(degrees), for the multiples of 90 degrees
CosDegrees(degrees) ==
    CASE degrees % 360 = 0 -> 1
      [] degrees % 360 = 90 -> 0
      [] degrees % 360 = 180 -> -1
      [] degrees % 360 = 270 -> 0

SinDegrees(degrees) ==
    CASE degrees % 360 = 0 -> 0
      [] degrees % 360 = 90 -> 1
      [] degrees % 360 = 180 -> 0
      [] degrees % 360 = 270 -> -1

\* glm::scale(v)
glmScale(v) ==
    <<<<v[1], 0, 0, 0>>, <<0, v[2], 0, 0>>, <<0, 0, v[3], 0>>, <<0, 0, 0, 1>>>>

\* glm::rotate(glm::radians(degrees), axis) for the three unit axes
glmRotate(degrees, axis) ==
    LET c == CosDegrees(degrees)
        s == SinDegrees(degrees)
    IN  CASE axis = <<1, 0, 0>> ->
               <<<<1, 0, 0, 0>>, <<0, c, -s, 0>>, <<0, s, c, 0>>, <<0, 0, 0, 1>>>>
          [] axis = <<0, 1, 0>> ->
               <<<<c, 0, s, 0>>, <<0, 1, 0, 0>>, <<-s, 0, c, 0>>, <<0, 0, 0, 1>>>>
          [] axis = <<0, 0, 1>> ->
               <<<<c, -s, 0, 0>>, <<s, c, 0, 0>>, <<0, 0, 1, 0>>, <<0, 0, 0, 1>>>>

\* glm::translate(v)
glmTranslate(v) ==
    <<<<1, 0, 0, v[1]>>, <<0, 1, 0, v[2]>>, <<0, 0, 1, v[3]>>, <<0, 0, 0, 1>>>>

ModelMatrixScaleOutermost(scaleXYZ, XrotationDegrees, YrotationDegrees, ZrotationDegrees, positionXYZ) ==
    MatMul(glmScale(scaleXYZ),
      MatMul(glmRotate(ZrotationDegrees, <<0, 0, 1>>),
        MatMul(glmRotate(YrotationDegrees, <<0, 1, 0>>),
          MatMul(glmRotate(XrotationDegrees, <<1, 0, 0>>),
                 glmTranslate(positionXYZ)))))

\* modelView = translation * rotationX * rotationY * rotationZ * scale
ModelMatrix(scaleXYZ, XrotationDegrees, YrotationDegrees, ZrotationDegrees, positionXYZ) ==
    LET scale == glmScale(scaleXYZ)
        rotationX == glmRotate(XrotationDegrees, <<1, 0, 0>>)
        rotationY == glmRotate(YrotationDegrees, <<0, 1, 0>>)
        rotationZ == glmRotate(ZrotationDegrees, <<0, 0, 1>>)
        translation == glmTranslate(positionXYZ)
    IN  MatMul(MatMul(MatMul(MatMul(translation, rotationX), rotationY),
                      rotationZ), scale)

SetTransformations(scaleXYZ, XrotationDegrees, YrotationDegrees, ZrotationDegrees, positionXYZ) ==
    /\ IF NULL # m_pShaderManager
       THEN uniforms' = SetUniform(uniforms, "model",
                ModelMatrix(scaleXYZ, XrotationDegrees, YrotationDegrees,
                            ZrotationDegrees, positionXYZ))
       ELSE UNCHANGED uniforms
    /\ ret' = [op |-> "SetTransformations", scaleXYZ |-> scaleXYZ,
               XrotationDegrees |-> XrotationDegrees,
               YrotationDegrees |-> YrotationDegrees,
               ZrotationDegrees |-> ZrotationDegrees,
               positionXYZ |-> positionXYZ]
    /\ UNCHANGED <<sceneVars, glVars, viewVars, glfwVars>>

(***************************************************************************)
(* The state after the two constructors, and the transformation            *)
(* specification: SetTransformations called on any input of the sets.      *)
(***************************************************************************)
Init ==
    /\ InitScene /\ InitGL /\ InitShader /\ InitView /\ InitGLFW /\ InitObserver

ScaleInputs == {<<1, 1, 1>>, <<2, 3, 4>>}
DegreeInputs == {0, 90, 180, -90}
PositionInputs == {<<0, 0, 0>>, <<5, -6, 7>>}

NextTransform ==
    \E s \in ScaleInputs, x \in DegreeInputs, y \in DegreeInputs,
       z \in DegreeInputs, p \in PositionInputs :
        SetTransformations(s, x, y, z, p)

SpecTransform == Init /\ [][NextTransform]_vars

\* the five steps applied to a point one after the other, without matrices
ScalePoint(s, v) == <<s[1] * v[1], s[2] * v[2], s[3] * v[3]>>
RotateZPoint(d, v) ==
    <<CosDegrees(d) * v[1] - SinDegrees(d) * v[2],
      SinDegrees(d) * v[1] + CosDegrees(d) * v[2], v[3]>>
RotateYPoint(d, v) ==
    <<CosDegrees(d) * v[1] + SinDegrees(d) * v[3], v[2],
      CosDegrees(d) * v[3] - SinDegrees(d) * v[1]>>
RotateXPoint(d, v) ==
    <<v[1], CosDegrees(d) * v[2] - SinDegrees(d) * v[3],
      SinDegrees(d) * v[2] + CosDegrees(d) * v[3]>>
TranslatePoint(p, v) == <<v[1] + p[1], v[2] + p[2], v[3] + p[3]>>

\* M applied to the point v (w = 1)
MatPoint(M, v) ==
    <<M[1][1] * v[1] + M[1][2] * v[2] + M[1][3] * v[3] + M[1][4],
      M[2][1] * v[1] + M[2][2] * v[2] + M[2][3] * v[3] + M[2][4],
      M[3][1] * v[1] + M[3][2] * v[2] + M[3][3] * v[3] + M[3][4]>>

ProbePoints == {<<0, 0, 0>>, <<1, 0, 0>>, <<0, 1, 0>>, <<0, 0, 1>>, <<1, 2, 3>>}

\* C4: for every input SetTransformations publishes under "model" the
\* product Translate * RotateX * RotateY * RotateZ * Scale: a vertex is
\* scaled first, then rotated about Z, then Y, then X, then translated.
C4_ModelIsTRxRyRzS ==
    (ret.op = "SetTransformations") =>
        /\ Len(uniforms["model"]) = 1
        /\ uniforms["model"][1][4] = <<0, 0, 0, 1>>
        /\ \A v \in ProbePoints :
              MatPoint(uniforms["model"][1], v) =
                TranslatePoint(ret.positionXYZ,
                  RotateXPoint(ret.XrotationDegrees,
                    RotateYPoint(ret.YrotationDegrees,
                      RotateZPoint(ret.ZrotationDegrees,
                        ScalePoint(ret.scaleXYZ, v)))))

C4_Witness ==
    /\ ret.op = "SetTransformations"
    /\ ret.scaleXYZ = <<2, 3, 4>>
    /\ ret.XrotationDegrees = 90
    /\ ret.YrotationDegrees = -90
    /\ ret.ZrotationDegrees = 180
    /\ ret.positionXYZ = <<5, -6, 7>>
    /\ MatPoint(uniforms["model"][1], <<1, 2, 3>>) # <<1, 2, 3>>

(***************************************************************************)
(* The camera.  ViewManager.cpp stores Position, Front, Up and Zoom and    *)
(* calls ProcessKeyboard, ProcessMouseMovement and GetViewMatrix.          *)
(***************************************************************************)
VecAdd(a, b) == <<a[1] + b[1], a[2] + b[2], a[3] + b[3]>>
VecScale(k, a) == <<k * a[1], k * a[2], k * a[3]>>

\* the orientations Camera::ProcessMouseMovement can turn the camera to
LookDirections ==
    {[Front |-> <<0, -5, -10>>, Up |-> <<0, 9, -4>>],
     [Front |-> <<0, 5, -10>>, Up |-> <<0, 9, 4>>]}
CameraRight == <<10, 0, 0>>

\* Camera::ProcessKeyboard(direction, velocity): the position moves along
\* the direction's axis by the velocity
CameraProcessKeyboard(camera, direction, velocity) ==
    LET axis == CASE direction = "FORWARD" -> camera.Front
                  [] direction = "BACKWARD" -> VecScale(-1, camera.Front)
                  [] direction = "LEFT" -> VecScale(-1, CameraRight)
                  [] direction = "RIGHT" -> CameraRight
                  [] direction = "UP" -> camera.Up
                  [] direction = "DOWN" -> VecScale(-1, camera.Up)
    IN  [camera EXCEPT !.Position = VecAdd(camera.Position, VecScale(velocity, axis))]

\* Camera::GetViewMatrix(): lookAt(Position, Position + Front, Up)
CameraGetViewMatrix(camera) ==
    [eye |-> camera.Position,
     center |-> VecAdd(camera.Position, VecScale(2, camera.Front)),
     up |-> camera.Up]

(***************************************************************************)
(* CreateDisplayWindow(created): created tells whether glfwCreateWindow    *)
(* makes a window; it makes none once GLFW is terminated.                  *)
(***************************************************************************)
WINDOW_WIDTH == 1000
WINDOW_HEIGHT == 800
MaxWindows == 2

\* the windows glfwCreateWindow hands out, in this order
WindowHandles == <<"window1", "window2", "window3", "window4">>

\* glfwTerminate(): every window is destroyed, with what was set on it
GlfwTerminate ==
    /\ glfwTerminated' = TRUE
    /\ glfwCallbacks' = [w \in DOMAIN glfwCallbacks |-> {}]
    /\ glfwCursorMode' = [w \in DOMAIN glfwCursorMode |-> "destroyed"]
    /\ glfwContext' = NULL
    /\ glfwShouldClose' = {}

CreateDisplayWindowStoresBeforeCheck(created) ==
    LET window == IF created /\ ~glfwTerminated THEN WindowHandles[glfwWindows + 1] ELSE NULL
    IN  /\ m_pWindow' = window
        /\ IF window = NULL
           THEN /\ GlfwTerminate
                /\ UNCHANGED <<glfwWindows, glBlend>>
           ELSE /\ glfwWindows' = glfwWindows + 1
                /\ glfwContext' = window
                /\ glfwCallbacks' = Append(glfwCallbacks, {"cursorPos", "scroll"})
                /\ glfwCursorMode' = Append(glfwCursorMode, "GLFW_CURSOR_DISABLED")
                /\ glBlend' = <<"GL_SRC_ALPHA", "GL_ONE_MINUS_SRC_ALPHA">>
                /\ UNCHANGED <<glfwTerminated, glfwShouldClose>>
        /\ ret' = [op |-> "CreateDisplayWindow", val |-> window]
        /\ UNCHANGED <<sceneVars, glVars, uniforms, glfwTime, g_pCamera, gLastX, gLastY, gFirstMouse, gDeltaTime, gLastFrame, bOrthographicProjection, gMovementSpeed, lastProjectionKey>>

CreateDisplayWindow(created) ==
    LET window == IF created /\ ~glfwTerminated THEN WindowHandles[glfwWindows + 1] ELSE NULL
    IN  /\ IF window = NULL
           THEN /\ GlfwTerminate
                /\ UNCHANGED <<glfwWindows, glBlend, m_pWindow>>
           ELSE /\ glfwWindows' = glfwWindows + 1
                /\ glfwContext' = window
                /\ glfwCallbacks' = Append(glfwCallbacks, {"cursorPos", "scroll"})
                /\ glfwCursorMode' = Append(glfwCursorMode, "GLFW_CURSOR_DISABLED")
                /\ glBlend' = <<"GL_SRC_ALPHA", "GL_ONE_MINUS_SRC_ALPHA">>
                /\ m_pWindow' = window
                /\ UNCHANGED <<glfwTerminated, glfwShouldClose>>
        /\ ret' = [op |-> "CreateDisplayWindow", val |-> window]
        /\ UNCHANGED <<sceneVars, glVars, uniforms, glfwTime, g_pCamera, gLastX, gLastY, gFirstMouse, gDeltaTime, gLastFrame, bOrthographicProjection, gMovementSpeed, lastProjectionKey>>

(***************************************************************************)
(* The mouse callbacks.                                                    *)
(***************************************************************************)
\* look is the orientation Camera::ProcessMouseMovement turns the camera to
\* the callback without the gFirstMouse branch: the first offset is taken
\* from the initial gLastX, gLastY
Mouse_Position_CallbackNoFirstMouse(xMousePos, yMousePos, look) ==
    LET xOffset == xMousePos - gLastX
        yOffset == gLastY - yMousePos
    IN  /\ gFirstMouse' = FALSE
        /\ gLastX' = xMousePos
        /\ gLastY' = yMousePos
        /\ g_pCamera' = [g_pCamera EXCEPT !.Front = look.Front, !.Up = look.Up]
        /\ ret' = [op |-> "Mouse_Position_Callback", xMousePos |-> xMousePos,
                   yMousePos |-> yMousePos, xOffset |-> xOffset, yOffset |-> yOffset]
        /\ UNCHANGED <<sceneVars, glVars, uniforms, glfwVars, m_pWindow, gDeltaTime, gLastFrame, bOrthographicProjection, gMovementSpeed, lastProjectionKey>>

Mouse_Position_Callback(xMousePos, yMousePos, look) ==
    LET lastX == IF gFirstMouse THEN xMousePos ELSE gLastX
        lastY == IF gFirstMouse THEN yMousePos ELSE gLastY
        xOffset == xMousePos - lastX
        yOffset == lastY - yMousePos
    IN  /\ gFirstMouse' = FALSE
        /\ gLastX' = xMousePos
        /\ gLastY' = yMousePos
        /\ g_pCamera' = [g_pCamera EXCEPT !.Front = look.Front, !.Up = look.Up]
        /\ ret' = [op |-> "Mouse_Position_Callback", xMousePos |-> xMousePos,
                   yMousePos |-> yMousePos, xOffset |-> xOffset, yOffset |-> yOffset]
        /\ UNCHANGED <<sceneVars, glVars, uniforms, glfwVars, m_pWindow, gDeltaTime, gLastFrame, bOrthographicProjection, gMovementSpeed, lastProjectionKey>>

ScrolledSpeedNoFloor(speed, yOffset) ==
    IF yOffset > 0 THEN speed + 1
    ELSE IF yOffset < 0 THEN speed - 1
    ELSE speed

\* the speed after a scroll by yOffset, in steps of 0.5
ScrolledSpeed(speed, yOffset) ==
    IF yOffset > 0 THEN speed + 1
    ELSE IF yOffset < 0 THEN Max(1, speed - 1)
    ELSE speed

Mouse_Scroll_Callback(xOffset, yOffset) ==
    /\ gMovementSpeed' = ScrolledSpeed(gMovementSpeed, yOffset)
    /\ ret' = [op |-> "Mouse_Scroll_Callback", yOffset |-> yOffset]
    /\ UNCHANGED <<sceneVars, glVars, uniforms, glfwVars, m_pWindow, g_pCamera, gLastX, gLastY, gFirstMouse, gDeltaTime, gLastFrame, bOrthographicProjection, lastProjectionKey>>

(***************************************************************************)
(* ProcessKeyboardEvents, on the set of keys glfwGetKey reports pressed,   *)
(* and PrepareSceneView, which calls it.                                   *)
(***************************************************************************)
PerspectivePreset(camera) ==
    [camera EXCEPT !.Position = <<0, 110, 160>>, !.Front = <<0, -5, -20>>,
                   !.Up = <<0, 10, 0>>, !.Zoom = 80]

OrthographicPresetKeepsFront(camera) ==
    [camera EXCEPT !.Position = <<0, 100, 200>>,
                   !.Up = <<0, 10, 0>>, !.Zoom = 1]

OrthographicPreset(camera) ==
    [camera EXCEPT !.Position = <<0, 100, 200>>, !.Front = <<0, 0, -10>>,
                   !.Up = <<0, 10, 0>>, !.Zoom = 1]

MoveIfPressed(keys, key, camera, direction, velocity) ==
    IF key \in keys THEN CameraProcessKeyboard(camera, direction, velocity)
    ELSE camera

\* the camera after ProcessKeyboardEvents
KeyboardCamera(keys, camera, velocity) ==
    LET c1 == MoveIfPressed(keys, "W", camera, "FORWARD", velocity)
        c2 == MoveIfPressed(keys, "S", c1, "BACKWARD", velocity)
        c3 == MoveIfPressed(keys, "A", c2, "LEFT", velocity)
        c4 == MoveIfPressed(keys, "D", c3, "RIGHT", velocity)
        c5 == MoveIfPressed(keys, "Q", c4, "UP", velocity)
        c6 == MoveIfPressed(keys, "E", c5, "DOWN", velocity)
        c7 == IF "P" \in keys THEN PerspectivePreset(c6) ELSE c6
    IN  IF "O" \in keys THEN OrthographicPreset(c7) ELSE c7

KeyboardProjectionPLast(keys, orthographic) ==
    IF "P" \in keys THEN FALSE
    ELSE IF "O" \in keys THEN TRUE
    ELSE orthographic

\* bOrthographicProjection after ProcessKeyboardEvents: P is tested first,
\* O after it
KeyboardProjection(keys, orthographic) ==
    LET afterP == IF "P" \in keys THEN FALSE ELSE orthographic
    IN  IF "O" \in keys THEN TRUE ELSE afterP

\* the projection PrepareSceneView builds
ProjectionMatrix(orthographic, camera) ==
    IF ~orthographic
    THEN [kind |-> "perspective", fovDegrees |-> camera.Zoom,
          width |-> WINDOW_WIDTH, height |-> WINDOW_HEIGHT]
    ELSE LET orthoSize == 100
         IN  IF WINDOW_WIDTH >= WINDOW_HEIGHT
             THEN [kind |-> "orthographic",
                   left |-> -((orthoSize * WINDOW_WIDTH) \div WINDOW_HEIGHT),
                   right |-> (orthoSize * WINDOW_WIDTH) \div WINDOW_HEIGHT,
                   bottom |-> -orthoSize, top |-> orthoSize]
             ELSE [kind |-> "orthographic",
                   left |-> -orthoSize, right |-> orthoSize,
                   bottom |-> -((orthoSize * WINDOW_HEIGHT) \div WINDOW_WIDTH),
                   top |-> (orthoSize * WINDOW_HEIGHT) \div WINDOW_WIDTH]

\* PrepareSceneView with the keyboard processed before the elapsed time is
\* recomputed: the camera moves by the previous frame's gDeltaTime
PrepareSceneViewKeyboardFirst(keys) ==
    LET currentFrame == glfwTime
        deltaTime == currentFrame - gLastFrame
        camera == KeyboardCamera(keys, g_pCamera, gDeltaTime * gMovementSpeed)
        orthographic == KeyboardProjection(keys, bOrthographicProjection)
    IN  /\ gDeltaTime' = deltaTime
        /\ gLastFrame' = currentFrame
        /\ glfwShouldClose' = IF "ESCAPE" \in keys
                              THEN glfwShouldClose \cup {m_pWindow}
                              ELSE glfwShouldClose
        /\ g_pCamera' = camera
        /\ bOrthographicProjection' = orthographic
        /\ lastProjectionKey' = IF "O" \in keys THEN "O"
                                ELSE IF "P" \in keys THEN "P"
                                ELSE lastProjectionKey
        /\ IF m_pShaderManager # NULL
           THEN uniforms' = SetUniform(SetUniform(SetUniform(uniforms,
                    "view", CameraGetViewMatrix(camera)),
                    "projection", ProjectionMatrix(orthographic, camera)),
                    "viewPosition", camera.Position)
           ELSE UNCHANGED uniforms
        /\ ret' = [op |-> "PrepareSceneView", keys |-> keys]
        /\ UNCHANGED <<sceneVars, glVars, m_pWindow, gLastX, gLastY, gFirstMouse, gMovementSpeed, glfwTime, glfwTerminated, glfwWindows, glfwCallbacks, glfwContext, glfwCursorMode, glBlend>>

PrepareSceneView(keys) ==
    LET currentFrame == glfwTime
        deltaTime == currentFrame - gLastFrame
        camera == KeyboardCamera(keys, g_pCamera, deltaTime * gMovementSpeed)
        orthographic == KeyboardProjection(keys, bOrthographicProjection)
    IN  /\ gDeltaTime' = deltaTime
        /\ gLastFrame' = currentFrame
        /\ glfwShouldClose' = IF "ESCAPE" \in keys
                              THEN glfwShouldClose \cup {m_pWindow}
                              ELSE glfwShouldClose
        /\ g_pCamera' = camera
        /\ bOrthographicProjection' = orthographic
        /\ lastProjectionKey' = IF "O" \in keys THEN "O"
                                ELSE IF "P" \in keys THEN "P"
                                ELSE lastProjectionKey
        /\ IF m_pShaderManager # NULL
           THEN uniforms' = SetUniform(SetUniform(SetUniform(uniforms,
                    "view", CameraGetViewMatrix(camera)),
                    "projection", ProjectionMatrix(orthographic, camera)),
                    "viewPosition", camera.Position)
           ELSE UNCHANGED uniforms
        /\ ret' = [op |-> "PrepareSceneView", keys |-> keys]
        /\ UNCHANGED <<sceneVars, glVars, m_pWindow, gLastX, gLastY, gFirstMouse, gMovementSpeed, glfwTime, glfwTerminated, glfwWindows, glfwCallbacks, glfwContext, glfwCursorMode, glBlend>>

(***************************************************************************)
(* The input specification: windows are created, and the mouse callbacks   *)
(* fire on a window they are registered on.                                *)
(***************************************************************************)
MaxSpeed == 6

MousePositions == {<<500, 400>>, <<520, 370>>}
ScrollOffsets == {-1, 0, 1}

Registered(callback) == \E w \in DOMAIN glfwCallbacks : callback \in glfwCallbacks[w]

NextInput ==
    \/ \E created \in BOOLEAN :
          /\ glfwWindows < MaxWindows
          /\ CreateDisplayWindow(created)
    \/ \E pos \in MousePositions, look \in LookDirections :
          /\ Registered("cursorPos")
          /\ Mouse_Position_Callback(pos[1], pos[2], look)
    \/ \E yOffset \in ScrollOffsets :
          /\ Registered("scroll")
          /\ gMovementSpeed < MaxSpeed \/ yOffset <= 0
          /\ Mouse_Scroll_Callback(0, yOffset)

SpecInput == Init /\ [][NextInput]_vars

\* C5: after any sequence of scroll callbacks with positive, negative or
\* zero yOffset, starting from 2.5, the movement speed is at least 0.5
\* (one step of 0.5).
C5_SpeedAtLeastHalf == gMovementSpeed >= 1

C5_Witness ==
    /\ ret.op = "Mouse_Scroll_Callback"
    /\ ret.yOffset < 0
    /\ gMovementSpeed = 1

\* C10: when window creation fails CreateDisplayWindow terminates GLFW and
\* returns NULL, registers no callback and leaves m_pWindow as it was; when
\* it succeeds it registers the cursor-position and the scroll callback on
\* the new window, stores the window in m_pWindow and returns it.
C10_CreateDisplayWindow ==
    [][(ret'.op = "CreateDisplayWindow") =>
         IF glfwWindows' = glfwWindows
         THEN /\ ret'.val = NULL
              /\ glfwTerminated'
              /\ m_pWindow' = m_pWindow
              /\ DOMAIN glfwCallbacks' = DOMAIN glfwCallbacks
              /\ \A w \in DOMAIN glfwCallbacks : glfwCallbacks'[w] \subseteq glfwCallbacks[w]
         ELSE /\ glfwWindows' = glfwWindows + 1
              /\ ret'.val = WindowHandles[glfwWindows']
              /\ m_pWindow' = ret'.val
              /\ glfwCallbacks'[glfwWindows'] = {"cursorPos", "scroll"}
              /\ \A w \in DOMAIN glfwCallbacks : glfwCallbacks'[w] = glfwCallbacks[w]
              /\ glfwTerminated' = glfwTerminated]_vars

C10_Witness ==
    /\ ret.op = "CreateDisplayWindow"
    /\ ret.val = NULL
    /\ glfwTerminated
    /\ m_pWindow = WindowHandles[1]

(***************************************************************************)
(* The view specification: the application creates its window, the clock   *)
(* advances, the mouse turns the camera, and the render loop prepares the  *)
(* view of a frame while the window is open.                               *)
(***************************************************************************)
MaxTime == 2
MaxDistance == 100

KeySets ==
    {{}, {"W"}, {"S"}, {"A"}, {"D"}, {"Q"}, {"E"}, {"P"}, {"O"}, {"ESCAPE"},
     {"P", "O"}, {"W", "P"}, {"S", "O"}}
LookPositions == {<<520, 370>>}

Abs(x) == IF x < 0 THEN -x ELSE x
\* the camera stays within MaxDistance of where the constructor puts it
InBox(v) == \A i \in 1..3 : Abs(v[i] - InitCamera.Position[i]) <= MaxDistance

Tick ==
    /\ glfwTime < MaxTime
    /\ ~glfwTerminated
    /\ glfwTime' = glfwTime + 1
    /\ ret' = [op |-> "Tick"]
    /\ UNCHANGED <<sceneVars, glVars, uniforms, viewVars, glfwTerminated, glfwWindows, glfwCallbacks, glfwShouldClose, glfwContext, glfwCursorMode, glBlend>>

NextView ==
    \/ \E created \in BOOLEAN :
          /\ m_pWindow = NULL
          /\ ~glfwTerminated
          /\ CreateDisplayWindow(created)
    \/ Tick
    \/ \E pos \in LookPositions, look \in LookDirections :
          /\ Registered("cursorPos")
          /\ Mouse_Position_Callback(pos[1], pos[2], look)
    \/ \E keys \in KeySets :
          /\ m_pWindow # NULL
          /\ ~glfwTerminated
          /\ m_pWindow \notin glfwShouldClose
          /\ PrepareSceneView(keys)
          /\ InBox(g_pCamera'.Position)

SpecView == Init /\ [][NextView]_vars

PerspectiveCamera ==
    [Position |-> <<0, 110, 160>>, Front |-> <<0, -5, -20>>,
     Up |-> <<0, 10, 0>>, Zoom |-> 80]
OrthographicCamera ==
    [Position |-> <<0, 100, 200>>, Front |-> <<0, 0, -10>>,
     Up |-> <<0, 10, 0>>, Zoom |-> 1]

\* C6: whatever the camera state was before, a frame with only P pressed
\* leaves the camera at Position (0, 5.5, 8), Front (0, -0.5, -2),
\* Up (0, 1, 0), Zoom 80 with the projection flag perspective; a frame with
\* only O pressed leaves it at Position (0, 5, 10), Front (0, 0, -1),
\* Up (0, 1, 0), Zoom 1 with the projection flag orthographic.
C6_PresetsExact ==
    (ret.op = "PrepareSceneView") =>
        /\ (ret.keys = {"P"}) =>
              (g_pCamera = PerspectiveCamera /\ bOrthographicProjection = FALSE)
        /\ (ret.keys = {"O"}) =>
              (g_pCamera = OrthographicCamera /\ bOrthographicProjection = TRUE)

C6_Witness ==
    /\ ret.op = "PrepareSceneView"
    /\ ret.keys = {"O"}
    /\ gFirstMouse = FALSE
    /\ gLastFrame > 0
    /\ g_pCamera = OrthographicCamera

\* C7: the projection PrepareSceneView publishes is orthographic exactly
\* when the projection key processed last was O, perspective when it was P
\* or none was pressed yet; the mode changes only in a frame with P or O
\* down; with both down, O is processed last.
C7_ProjectionFollowsLastKey ==
    /\ [](/\ bOrthographicProjection = (lastProjectionKey = "O")
          /\ (Len(uniforms["projection"]) = 1) =>
                (uniforms["projection"][1].kind =
                   IF lastProjectionKey = "O" THEN "orthographic" ELSE "perspective")
          /\ (ret.op = "PrepareSceneView" /\ {"P", "O"} \subseteq ret.keys) =>
                (uniforms["projection"][1].kind = "orthographic"))
    /\ [][(bOrthographicProjection' # bOrthographicProjection) =>
            (ret'.op = "PrepareSceneView" /\ ret'.keys \cap {"P", "O"} # {})]_vars

C7_Witness ==
    /\ ret.op = "PrepareSceneView"
    /\ ret.keys = {"W"}
    /\ lastProjectionKey = "O"
    /\ uniforms["projection"][1].kind = "orthographic"

(***************************************************************************)
(* PrepareScene: the materials, the lights, the twelve texture loads and   *)
(* the four meshes.  A material or light value is counted in thousandths.  *)
(***************************************************************************)
\* DefineObjectMaterials: the six materials, in the order of the push_back
\* calls; values in thousandths
SceneMaterials ==
    <<
      [tag |-> "gold", ambientColor |-> <<200, 200, 100>>, ambientStrength |-> 400,
       diffuseColor |-> <<300, 300, 200>>, specularColor |-> <<600, 500, 400>>,
       shininess |-> 22000],
      [tag |-> "cement", ambientColor |-> <<200, 200, 200>>, ambientStrength |-> 200,
       diffuseColor |-> <<500, 500, 500>>, specularColor |-> <<400, 400, 400>>,
       shininess |-> 500],
      [tag |-> "wood", ambientColor |-> <<400, 300, 100>>, ambientStrength |-> 200,
       diffuseColor |-> <<300, 200, 100>>, specularColor |-> <<100, 100, 100>>,
       shininess |-> 500],
      [tag |-> "tile", ambientColor |-> <<200, 300, 400>>, ambientStrength |-> 300,
       diffuseColor |-> <<300, 200, 100>>, specularColor |-> <<400, 500, 600>>,
       shininess |-> 25000],
      [tag |-> "glass", ambientColor |-> <<400, 400, 400>>, ambientStrength |-> 300,
       diffuseColor |-> <<400, 400, 500>>, specularColor |-> <<600, 600, 600>>,
       shininess |-> 85000],
      [tag |-> "clay", ambientColor |-> <<400, 300, 100>>, ambientStrength |-> 200,
       diffuseColor |-> <<300, 200, 100>>, specularColor |-> <<400, 500, 600>>,
       shininess |-> 500]>>

\* SetupSceneLights: the value set under each light uniform, in thousandths
SceneLights ==
    ("lightSources[0].position" :> <<10000, 10000, 10000>>)
    @@ ("lightSources[0].ambientColor" :> <<100, 90, 80>>)
    @@ ("lightSources[0].diffuseColor" :> <<300, 300, 300>>)
    @@ ("lightSources[0].specularColor" :> <<1000, 1000, 1000>>)
    @@ ("lightSources[0].focalStrength" :> 12000)
    @@ ("lightSources[0].specularIntensity" :> 2)
    @@ ("lightSources[1].position" :> <<-10000, 10400, -9500>>)
    @@ ("lightSources[1].ambientColor" :> <<120, 90, 80>>)
    @@ ("lightSources[1].diffuseColor" :> <<350, 330, 300>>)
    @@ ("lightSources[1].specularColor" :> <<300, 300, 1000>>)
    @@ ("lightSources[1].focalStrength" :> 2000)
    @@ ("lightSources[1].specularIntensity" :> 20)
    @@ ("lightSources[2].position" :> <<0, 10000, 0>>)
    @@ ("lightSources[2].ambientColor" :> <<100, 90, 80>>)
    @@ ("lightSources[2].diffuseColor" :> <<300, 300, 300>>)
    @@ ("lightSources[2].specularColor" :> <<100, 1000, 1000>>)
    @@ ("lightSources[2].focalStrength" :> 54000)
    @@ ("lightSources[2].specularIntensity" :> 10)
    @@ ("lightSources[3].position" :> <<10000, 0, -10000>>)
    @@ ("lightSources[3].ambientColor" :> <<100, 90, 80>>)
    @@ ("lightSources[3].diffuseColor" :> <<350, 330, 300>>)
    @@ ("lightSources[3].specularColor" :> <<1000, 1000, 1000>>)
    @@ ("lightSources[3].focalStrength" :> 16000)
    @@ ("lightSources[3].specularIntensity" :> 15)

\* the uniforms after SetupSceneLights
SetupSceneLightsUniforms(u) ==
    [n \in UniformNames |->
        IF n = "bUseLighting" THEN <<1>>
        ELSE IF n \in LightUniforms THEN <<SceneLights[n]>>
        ELSE u[n]]

\* LoadSceneTextures: the tags of the twelve loads, in the order of the calls
\* the same list with the last tag misspelt
SceneTexturesPosterMisspelt ==
    <<"floor", "floor2", "plank", "desk", "bDrop", "Book5", "Books",
      "plastic", "screen", "wood", "KB1", "Poster">>
SceneTextures ==
    <<"floor", "floor2", "plank", "desk", "bDrop", "Book5", "Books",
      "plastic", "screen", "wood", "KB1", "poster">>

\* the texture state the loads work on
TextureState ==
    [m_textureIDs |-> m_textureIDs, m_loadedTextures |-> m_loadedTextures,
     glNames |-> glNames, glActiveUnit |-> glActiveUnit, glUnits |-> glUnits]

\* the texture states CreateGLTexture can leave, from the texture state st.
\* With the index behind the array the stores of lines 113-115 go out of
\* bounds: they land in the memory behind the array, or on the counter.
CreateGLTextureOutcomes(st, colorChannels, tag) ==
    IF colorChannels = 0
    THEN {st}
    ELSE IF colorChannels \in {3, 4}
    THEN LET generated == [st EXCEPT !.glNames = @ + 1,
                                     !.glUnits[st.glActiveUnit] = 0]
             registered == [generated EXCEPT
                               !.m_textureIDs =
                                   [c \in Cells |-> IF c = st.m_loadedTextures
                                                    THEN [ID |-> st.glNames + 1, tag |-> tag]
                                                    ELSE st.m_textureIDs[c]],
                               !.m_loadedTextures = @ + 1]
         IN  IF st.m_loadedTextures < TextureSlots
             THEN {registered}
             ELSE {registered} \cup
                  {[generated EXCEPT !.m_loadedTextures = n] : n \in 0..TextureSlots}
    ELSE {[st EXCEPT !.glNames = @ + 1,
                     !.glUnits[st.glActiveUnit] = st.glNames + 1]}

\* BindGLTextures on the texture state st
\* BindGLTextures without the glActiveTexture call: every texture is bound
\* to the unit that is active, the last one stays
BindGLTexturesOnActiveUnit(st) ==
    [st EXCEPT !.glUnits = [u \in Cells |-> IF u = st.glActiveUnit /\ st.m_loadedTextures > 0
                                            THEN st.m_textureIDs[st.m_loadedTextures - 1].ID
                                            ELSE st.glUnits[u]]]

BindGLTexturesOn(st) ==
    [st EXCEPT !.glActiveUnit = IF st.m_loadedTextures > 0
                                THEN st.m_loadedTextures - 1
                                ELSE @,
               !.glUnits = [u \in Cells |-> IF u < st.m_loadedTextures
                                            THEN st.m_textureIDs[u].ID
                                            ELSE st.glUnits[u]]]

\* the i-th load of LoadSceneTextures on each of the runs: a run is the
\* texture state and the calls made so far
LoadTexture(runs, colorChannels, i) ==
    {[st |-> after,
      calls |-> Append(run.calls, [op |-> "CreateGLTexture", tag |-> SceneTextures[i],
                                   bReturn |-> colorChannels[i] \in {3, 4}])] :
        <<run, after>> \in
            UNION {{<<r, a>> : a \in CreateGLTextureOutcomes(r.st, colorChannels[i], SceneTextures[i])} : r \in runs}}

\* BindGLTextures on each of the runs
BindTextures(runs) ==
    {[st |-> BindGLTexturesOn(run.st),
      calls |-> Append(run.calls, [op |-> "BindGLTextures"])] : run \in runs}

RECURSIVE LoadSceneTexturesStopsAtFailure(_, _, _)
LoadSceneTexturesStopsAtFailure(runs, colorChannels, i) ==
    IF i > Len(SceneTextures)
    THEN BindTextures(runs)
    ELSE IF colorChannels[i] \notin {3, 4}
    THEN LoadTexture(runs, colorChannels, i)
    ELSE LoadSceneTexturesStopsAtFailure(LoadTexture(runs, colorChannels, i), colorChannels, i + 1)

\* LoadSceneTextures from its i-th load on: each load stores its result in
\* bReturn, which nothing reads; BindGLTextures follows the last load.
\* colorChannels[i] is what stbi_load reports for the file of the i-th load.
RECURSIVE LoadSceneTextures(_, _, _)
LoadSceneTextures(runs, colorChannels, i) ==
    IF i > Len(SceneTextures)
    THEN BindTextures(runs)
    ELSE LoadSceneTextures(LoadTexture(runs, colorChannels, i), colorChannels, i + 1)

\* the meshes PrepareScene loads
SceneMeshes == {"plane", "box", "cylinder", "torus"}

PrepareScene(colorChannels) ==
    \E loaded \in LoadSceneTextures({[st |-> TextureState, calls |-> <<>>]}, colorChannels, 1) :
        /\ m_objectMaterials' = m_objectMaterials \o SceneMaterials
        /\ uniforms' = SetupSceneLightsUniforms(uniforms)
        /\ m_textureIDs' = loaded.st.m_textureIDs
        /\ m_loadedTextures' = loaded.st.m_loadedTextures
        /\ glNames' = loaded.st.glNames
        /\ glActiveUnit' = loaded.st.glActiveUnit
        /\ glUnits' = loaded.st.glUnits
        /\ m_basicMeshes' = m_basicMeshes \cup SceneMeshes
        /\ ret' = [op |-> "PrepareScene", colorChannels |-> colorChannels,
                   before |-> m_loadedTextures, calls |-> loaded.calls]
        /\ UNCHANGED <<m_pShaderManager, viewVars, glfwVars>>

(***************************************************************************)
(* RenderScene as the sequence of calls it makes.  A scale or a position   *)
(* is counted in hundredths, an angle in hundredths of a degree, a color   *)
(* component in tenths.                                                    *)
(***************************************************************************)
SetTransformationsCall(scaleXYZ, XrotationDegrees, YrotationDegrees, ZrotationDegrees, positionXYZ) ==
    [op |-> "SetTransformations", scaleXYZ |-> scaleXYZ,
     XrotationDegrees |-> XrotationDegrees, YrotationDegrees |-> YrotationDegrees,
     ZrotationDegrees |-> ZrotationDegrees, positionXYZ |-> positionXYZ]
SetShaderColorCall(color) == [op |-> "SetShaderColor", color |-> color]
SetShaderTextureCall(textureTag) == [op |-> "SetShaderTexture", tag |-> textureTag]
SetShaderMaterialCall(materialTag) == [op |-> "SetShaderMaterial", tag |-> materialTag]
DrawCall(draw) == [op |-> draw]

DrawOps == {"DrawPlaneMesh", "DrawBoxMesh", "DrawCylinderMesh", "DrawTorusMesh"}
\* the mesh a draw call draws
MeshOf(draw) ==
    CASE draw = "DrawPlaneMesh" -> "plane"
      [] draw = "DrawBoxMesh" -> "box"
      [] draw = "DrawCylinderMesh" -> "cylinder"
      [] draw = "DrawTorusMesh" -> "torus"

\* the objects RenderScene draws before the two leg details (lines 630-796)
RenderSceneBeforeLegDetail ==
    <<SetTransformationsCall(<<1800, 100, 700>>, 0, 0, 0, <<0, -20, -270>>),
      SetShaderColorCall(<<1, 5, 10, 10>>),
      SetShaderTextureCall("wood"),
      SetShaderMaterialCall("cement"),
      DrawCall("DrawPlaneMesh"),
      SetTransformationsCall(<<550, 100, 300>>, 0, 0, 0, <<50, 0, -150>>),
      SetShaderColorCall(<<1, 5, 10, 10>>),
      SetShaderTextureCall("floor"),
      SetShaderMaterialCall("cement"),
      DrawCall("DrawPlaneMesh"),
      SetTransformationsCall(<<2000, 1020, 840>>, 9000, 0, 0, <<0, 700, -1000>>),
      SetShaderColorCall(<<2, 10, 10, 10>>),
      SetShaderTextureCall("bDrop"),
      SetShaderMaterialCall("cement"),
      DrawCall("DrawPlaneMesh"),
      SetTransformationsCall(<<500, 620, 20>>, 0, 0, 0, <<-1000, 600, -1000>>),
      SetShaderColorCall(<<2, 10, 10, 10>>),
      SetShaderTextureCall("poster"),
      DrawCall("DrawBoxMesh"),
      SetTransformationsCall(<<800, 40, 300>>, 0, 0, 0, <<50, 250, -200>>),
      SetShaderColorCall(<<5, 10, 10, 10>>),
      SetShaderTextureCall("wood"),
      SetShaderMaterialCall("cement"),
      DrawCall("DrawBoxMesh"),
      SetTransformationsCall(<<50, 250, 240>>, 0, 0, 0, <<-300, 100, -200>>),
      SetShaderColorCall(<<2, 10, 10, 10>>),
      SetShaderTextureCall("plank"),
      SetShaderMaterialCall("wood"),
      DrawCall("DrawBoxMesh")>>

\* the object between the two loops (lines 833-859)
RenderSceneBeforeBooks ==
    <<SetTransformationsCall(<<50, 290, 240>>, 0, 0, 0, <<400, 100, -200>>),
      SetShaderColorCall(<<2, 10, 10, 10>>),
      SetShaderTextureCall("plank"),
      SetShaderMaterialCall("wood"),
      DrawCall("DrawBoxMesh")>>

\* the objects after the stacked books (lines 911-1131)
RenderSceneAfterBooks ==
    <<SetTransformationsCall(<<80, 10, 50>>, 0, 0, 0, <<50, 270, -220>>),
      SetShaderColorCall(<<5, 10, 10, 10>>),
      SetShaderTextureCall("plastic"),
      SetShaderMaterialCall("glass"),
      DrawCall("DrawCylinderMesh"),
      SetTransformationsCall(<<30, 250, 10>>, 0, 0, 0, <<50, 390, -220>>),
      SetShaderColorCall(<<5, 10, 10, 10>>),
      SetShaderTextureCall("plastic"),
      SetShaderMaterialCall("glass"),
      DrawCall("DrawBoxMesh"),
      SetTransformationsCall(<<70, 70, 9>>, 0, 0, 0, <<50, 500, -209>>),
      SetShaderColorCall(<<5, 10, 10, 10>>),
      SetShaderTextureCall("plastic"),
      SetShaderMaterialCall("wood"),
      DrawCall("DrawBoxMesh"),
      SetTransformationsCall(<<400, 250, 20>>, 0, 0, 0, <<50, 500, -200>>),
      SetShaderColorCall(<<5, 10, 10, 10>>),
      SetShaderTextureCall("plastic"),
      SetShaderMaterialCall("cement"),
      DrawCall("DrawBoxMesh"),
      SetTransformationsCall(<<380, 230, 8>>, 0, 0, 0, <<50, 500, -190>>),
      SetShaderColorCall(<<5, 10, 10, 10>>),
      SetShaderTextureCall("screen"),
      SetShaderMaterialCall("glass"),
      DrawCall("DrawBoxMesh"),
      SetTransformationsCall(<<430, 10, 100>>, 2200, 0, 0, <<50, 220, -10>>),
      SetShaderColorCall(<<5, 10, 10, 10>>),
      SetShaderTextureCall("wood"),
      SetShaderMaterialCall("wood"),
      DrawCall("DrawBoxMesh"),
      SetTransformationsCall(<<320, 10, 80>>, 2200, 0, 0, <<50, 240, -18>>),
      SetShaderColorCall(<<5, 10, 10, 10>>),
      SetShaderTextureCall("KB1"),
      SetShaderMaterialCall("glass"),
      DrawCall("DrawBoxMesh"),
      SetTransformationsCall(<<100, 50, 70>>, 0, 0, 0, <<-1000, 1050, -950>>),
      SetShaderColorCall(<<5, 10, 10, 10>>),
      SetShaderTextureCall("plastic"),
      SetShaderMaterialCall("glass"),
      DrawCall("DrawBoxMesh")>>
\* the leg-detail loop with the color set after the texture
RECURSIVE LegDetailLoopColorLast(_)
LegDetailLoopColorLast(i) ==
    IF i <= 1
    THEN <<SetTransformationsCall(<<50, 50, 80>>, 0, 9000, 0,
               IF i = 0 THEN <<-318, 130, -200>> ELSE <<418, 130, -200>>),
           SetShaderTextureCall("screen"),
           SetShaderColorCall(<<2, 10, 10, 10>>),
           SetShaderMaterialCall("glass"),
           DrawCall("DrawTorusMesh")>> \o LegDetailLoopColorLast(i + 1)
    ELSE <<>>

\* the leg details: for (int i = 0; i <= 1; i++)
RECURSIVE LegDetailLoop(_)
LegDetailLoop(i) ==
    IF i <= 1
    THEN <<SetTransformationsCall(<<50, 50, 80>>, 0, 9000, 0,
               IF i = 0 THEN <<-318, 130, -200>> ELSE <<418, 130, -200>>),
           SetShaderColorCall(<<2, 10, 10, 10>>),
           SetShaderTextureCall("screen"),
           SetShaderMaterialCall("glass"),
           DrawCall("DrawTorusMesh")>> \o LegDetailLoop(i + 1)
    ELSE <<>>

RECURSIVE BookLoopAlwaysIncrements(_, _, _, _, _, _)
BookLoopAlwaysIncrements(i, yRot, yPos, xPos, xScale, zScale) ==
    IF i <= 4
    THEN <<SetTransformationsCall(<<xScale, 10, zScale>>, 0, yRot, 0, <<xPos, yPos, -120>>),
           SetShaderTextureCall(IF i = 4 THEN "Book5" ELSE "Books"),
           SetShaderMaterialCall(IF i % 2 = 0 THEN "wood" ELSE "clay"),
           DrawCall("DrawBoxMesh")>>
         \o BookLoopAlwaysIncrements(i + 1, yRot + 423, yPos + 10, xPos, xScale + 13, zScale + 12)
    ELSE <<>>

RECURSIVE BookLoopBindsBeforeTransform(_, _, _, _, _, _)
BookLoopBindsBeforeTransform(i, yRot, yPos, xPos, xScale, zScale) ==
    IF i <= 4
    THEN <<SetShaderTextureCall(IF i = 4 THEN "Book5" ELSE "Books"),
           SetTransformationsCall(<<xScale, 10, zScale>>, 0, yRot, 0, <<xPos, yPos, -120>>),
           SetShaderMaterialCall(IF i % 2 = 0 THEN "wood" ELSE "clay"),
           DrawCall("DrawBoxMesh")>>
         \o BookLoopBindsBeforeTransform(i + 1,
                IF i % 2 = 0 THEN yRot + 423 ELSE yRot - 103,
                yPos + 10, xPos,
                IF i % 2 = 0 THEN xScale + 13 ELSE xScale - 15,
                IF i % 2 = 0 THEN zScale + 12 ELSE zScale - 10)
    ELSE <<>>

\* the stacked books: for (int i = 0; i <= 4; i++), from iteration i on with
\* the loop variables as they are at its start
RECURSIVE BookLoop(_, _, _, _, _, _)
BookLoop(i, yRot, yPos, xPos, xScale, zScale) ==
    IF i <= 4
    THEN <<SetTransformationsCall(<<xScale, 10, zScale>>, 0, yRot, 0, <<xPos, yPos, -120>>),
           SetShaderTextureCall(IF i = 4 THEN "Book5" ELSE "Books"),
           SetShaderMaterialCall(IF i % 2 = 0 THEN "wood" ELSE "clay"),
           DrawCall("DrawBoxMesh")>>
         \o BookLoop(i + 1,
                IF i % 2 = 0 THEN yRot + 423 ELSE yRot - 103,
                yPos + 10, xPos,
                IF i % 2 = 0 THEN xScale + 13 ELSE xScale - 15,
                IF i % 2 = 0 THEN zScale + 12 ELSE zScale - 10)
    ELSE <<>>

\* the calls of the stacked books, from the initial values of line 869
BookCalls == BookLoop(0, 1000, 280, -250, 70, 90)

\* every call RenderScene makes, in order
RenderSceneCalls ==
    RenderSceneBeforeLegDetail \o LegDetailLoop(0) \o RenderSceneBeforeBooks
        \o BookCalls \o RenderSceneAfterBooks

\* the matrix SetTransformations publishes for a call of RenderScene, kept
\* as the five factors of the product of line 273, in its order
SceneModelMatrix(call) ==
    [translation |-> call.positionXYZ, rotationX |-> call.XrotationDegrees,
     rotationY |-> call.YrotationDegrees, rotationZ |-> call.ZrotationDegrees,
     scale |-> call.scaleXYZ]

\* what a draw call finds: whether its mesh is loaded, and the uniforms
DrawRecord(draw, u) ==
    [op |-> draw, loaded |-> MeshOf(draw) \in m_basicMeshes,
     bUseTexture |-> u["bUseTexture"], objectTexture |-> u["objectTexture"],
     objectColor |-> u["objectColor"], shininess |-> u["material.shininess"]]

\* one call on a run: a run is the uniforms and what each draw call found
\* so far.  material is what the local of SetShaderMaterial holds before
\* FindMaterial stores into it.
RunCall(call, run, material) ==
    CASE call.op = "SetTransformations" ->
           [run EXCEPT !.uniforms = IF NULL # m_pShaderManager
                                    THEN SetUniform(@, "model", SceneModelMatrix(call))
                                    ELSE @]
      [] call.op = "SetShaderColor" ->
           [run EXCEPT !.uniforms = ShaderColorUniforms(@, call.color)]
      [] call.op = "SetShaderTexture" ->
           [run EXCEPT !.uniforms = ShaderTextureUniforms(@, call.tag)]
      [] call.op = "SetShaderMaterial" ->
           [run EXCEPT !.uniforms = ShaderMaterialUniforms(@, call.tag, material)]
      [] call.op \in DrawOps ->
           [run EXCEPT !.draws = Append(@, DrawRecord(call.op, run.uniforms))]

\* the runs the calls first..last can end in, one after the other: the
\* first half, then the second half on each of its results
RECURSIVE RunCalls(_, _, _, _)
RunCalls(calls, first, last, runs) ==
    IF first > last THEN runs
    ELSE IF first = last
    THEN {RunCall(calls[first], run, material) :
              run \in runs, material \in IndeterminateMaterials}
    ELSE UNION {RunCalls(calls, ((first + last) \div 2) + 1, last, {half}) :
                    half \in RunCalls(calls, first, (first + last) \div 2, runs)}

RenderSceneDefinesMaterials ==
    \E run \in RunCalls(RenderSceneCalls, 1, Len(RenderSceneCalls), {[uniforms |-> uniforms, draws |-> <<>>]}) :
        /\ uniforms' = run.uniforms
        /\ m_objectMaterials' = m_objectMaterials \o SceneMaterials
        /\ ret' = [op |-> "RenderScene", calls |-> RenderSceneCalls, draws |-> run.draws]
        /\ UNCHANGED <<m_pShaderManager, m_textureIDs, m_loadedTextures, m_basicMeshes, glVars, viewVars, glfwVars>>

RenderScene ==
    \E run \in RunCalls(RenderSceneCalls, 1, Len(RenderSceneCalls), {[uniforms |-> uniforms, draws |-> <<>>]}) :
        /\ uniforms' = run.uniforms
        /\ ret' = [op |-> "RenderScene", calls |-> RenderSceneCalls, draws |-> run.draws]
        /\ UNCHANGED <<sceneVars, glVars, viewVars, glfwVars>>

(***************************************************************************)
(* The scene specification: the application prepares the scene once, with  *)
(* any of the twelve image files failing to load, and renders frames.      *)
(***************************************************************************)
\* the number of files that fail to load in a run, unless all of them fail
MaxFailedLoads == 3

\* what stbi_load reports for the twelve files: the files of F fail, either
\* undecodable (0 channels) or with 2 channels, the others have 3 or 4
FailedLoads ==
    {F \in SUBSET (DOMAIN SceneTextures) :
        Cardinality(F) <= MaxFailedLoads \/ F = DOMAIN SceneTextures}
LoadOutcomes ==
    {[i \in DOMAIN SceneTextures |-> IF i \in F THEN bad ELSE good] :
        F \in FailedLoads, bad \in {0, 2}, good \in {3, 4}}

NextScene ==
    \/ \E colorChannels \in LoadOutcomes :
          /\ m_objectMaterials = <<>>
          /\ PrepareScene(colorChannels)
    \/ RenderScene

SpecScene == Init /\ [][NextScene]_vars

\* C15: a PrepareSceneView call first recomputes gDeltaTime from the clock
\* and updates gLastFrame, then processes the keyboard, then computes and
\* publishes view, projection and viewPosition: the camera moves by the
\* elapsed time of this frame, and the published values are those of the
\* camera and projection mode as the keys of this frame left them.
C15_PrepareSceneViewOrder ==
    [][(ret'.op = "PrepareSceneView") =>
         /\ gDeltaTime' = glfwTime - gLastFrame
         /\ gLastFrame' = glfwTime
         /\ g_pCamera' = KeyboardCamera(ret'.keys, g_pCamera, gDeltaTime' * gMovementSpeed)
         /\ bOrthographicProjection' = KeyboardProjection(ret'.keys, bOrthographicProjection)
         /\ uniforms'["view"] = <<CameraGetViewMatrix(g_pCamera')>>
         /\ uniforms'["projection"] = <<ProjectionMatrix(bOrthographicProjection', g_pCamera')>>
         /\ uniforms'["viewPosition"] = <<g_pCamera'.Position>>
         /\ ("O" \in ret'.keys) => (uniforms'["projection"][1].kind = "orthographic")
         /\ (ret'.keys = {"P"}) => (uniforms'["projection"][1].kind = "perspective")]_vars

C15_Witness ==
    /\ ret.op = "PrepareSceneView"
    /\ ret.keys = {"W"}
    /\ gDeltaTime = 2
    /\ gLastFrame = glfwTime
    /\ g_pCamera.Position # InitCamera.Position
    /\ uniforms["viewPosition"] = <<g_pCamera.Position>>
    /\ uniforms["view"] = <<CameraGetViewMatrix(g_pCamera)>>

(***************************************************************************)
(* Claims about PrepareScene and RenderScene.                              *)
(***************************************************************************)
\* the positions of the draw calls in a sequence of calls
DrawPositions(calls) == {i \in DOMAIN calls : calls[i].op \in DrawOps}
\* the position of the draw call before position d, 0 if there is none
PreviousDraw(calls, d) ==
    LET earlier == {i \in DrawPositions(calls) : i < d}
    IN  IF earlier = {} THEN 0 ELSE CHOOSE i \in earlier : \A j \in earlier : j <= i
\* the positions strictly between the previous draw call and the draw call d
SincePreviousDraw(calls, d) == {i \in DOMAIN calls : PreviousDraw(calls, d) < i /\ i < d}

\* C13: every draw call of RenderScene, the iterations of the two loops
\* included, has since the previous draw call exactly one SetTransformations
\* call of its own and after it a color or texture binding: transform, then
\* color/texture, then draw.
C13_TransformThenBindThenDraw ==
    (ret.op = "RenderScene") =>
        \A d \in DrawPositions(ret.calls) :
            LET since == SincePreviousDraw(ret.calls, d)
                transforms == {i \in since : ret.calls[i].op = "SetTransformations"}
                bindings == {i \in since : ret.calls[i].op \in {"SetShaderColor", "SetShaderTexture"}}
            IN  /\ Cardinality(transforms) = 1
                /\ bindings # {}
                /\ \A t \in transforms, b \in bindings : t < b

C13_Witness ==
    /\ ret.op = "RenderScene"
    /\ Cardinality(DrawPositions(ret.calls)) = 22
    /\ Len(ret.draws) = 22
    /\ \E d \in DrawPositions(ret.calls) :
          /\ ret.calls[d - 1].tag = "clay"
          /\ ret.calls[d - 2].tag = "Books"
          /\ ret.calls[d - 3].op = "SetTransformations"

\* C14: every object of RenderScene gets its own material binding: between
\* two consecutive draw calls, and before the first, there is a
\* SetShaderMaterial call.
C14_EveryObjectBindsMaterial ==
    (ret.op = "RenderScene") =>
        \A d \in DrawPositions(ret.calls) :
            \E i \in SincePreviousDraw(ret.calls, d) : ret.calls[i].op = "SetShaderMaterial"

\* the positions of the SetTransformations calls of the stacked books: the
\* calls followed by the binding of a book texture
BookPositions(calls) ==
    {i \in DOMAIN calls :
        /\ calls[i].op = "SetTransformations"
        /\ i + 1 \in DOMAIN calls
        /\ calls[i + 1].op = "SetShaderTexture"
        /\ calls[i + 1].tag \in {"Books", "Book5"}}
\* the book after the book at position b
NextBook(calls, b) ==
    CHOOSE n \in BookPositions(calls) :
        /\ n > b
        /\ \A m \in BookPositions(calls) : (m > b) => (n <= m)
\* the books but the last
LowerBooks(calls) ==
    {b \in BookPositions(calls) : \E n \in BookPositions(calls) : n > b}
\* five books, each drawn as a box
FiveBoxes(calls) ==
    /\ Cardinality(BookPositions(calls)) = 5
    /\ \A b \in BookPositions(calls) :
          Cardinality({d \in DrawPositions(calls) :
                          PreviousDraw(calls, d) < b /\ b < d /\ calls[d].op = "DrawBoxMesh"}) = 1

\* C17 as stated: the loop draws exactly 5 boxes and each book is rotated
\* further about Y, larger in X and in Z and placed higher than the one
\* before.
C17_BooksEachIncremented ==
    (ret.op = "RenderScene") =>
        /\ FiveBoxes(ret.calls)
        /\ \A b \in LowerBooks(ret.calls) :
              LET this == ret.calls[b]
                  next == ret.calls[NextBook(ret.calls, b)]
              IN  /\ next.YrotationDegrees > this.YrotationDegrees
                  /\ next.scaleXYZ[1] > this.scaleXYZ[1]
                  /\ next.scaleXYZ[3] > this.scaleXYZ[3]
                  /\ next.positionXYZ[2] > this.positionXYZ[2]

\* the number of books below the book at position b
BooksBelow(calls, b) == Cardinality({a \in BookPositions(calls) : a < b})

\* C17 as amended: the loop draws exactly 5 boxes; each book is placed 0.10
\* higher than the one before; the Y rotation and the X and Z scale go up
\* after an even iteration (by 4.23 degrees, 0.13 and 0.12) and down after
\* an odd one (by 1.03 degrees, 0.15 and 0.10).
C17_BooksAlternate ==
    (ret.op = "RenderScene") =>
        /\ FiveBoxes(ret.calls)
        /\ \A b \in LowerBooks(ret.calls) :
              LET this == ret.calls[b]
                  next == ret.calls[NextBook(ret.calls, b)]
                  even == BooksBelow(ret.calls, b) % 2 = 0
              IN  /\ next.positionXYZ[2] = this.positionXYZ[2] + 10
                  /\ next.positionXYZ[1] = this.positionXYZ[1]
                  /\ next.positionXYZ[3] = this.positionXYZ[3]
                  /\ next.YrotationDegrees - this.YrotationDegrees = IF even THEN 423 ELSE -103
                  /\ next.scaleXYZ[1] - this.scaleXYZ[1] = IF even THEN 13 ELSE -15
                  /\ next.scaleXYZ[3] - this.scaleXYZ[3] = IF even THEN 12 ELSE -10

C17_Witness ==
    /\ ret.op = "RenderScene"
    /\ Cardinality(BookPositions(ret.calls)) = 5
    /\ \E b \in BookPositions(ret.calls) :
          /\ BooksBelow(ret.calls, b) = 4
          /\ ret.calls[b].YrotationDegrees = 1640
          /\ ret.calls[b].scaleXYZ = <<66, 10, 94>>
          /\ ret.calls[b].positionXYZ = <<-250, 320, -120>>
          /\ ret.calls[b + 1].tag = "Book5"

\* the tags of the texture files in the order LoadSceneTextures lists them
ListedTextureTags ==
    <<"floor", "floor2", "plank", "desk", "bDrop", "Book5",
      "Books", "plastic", "screen", "wood", "KB1", "poster">>
\* the loads that succeeded, in the order they were attempted
SuccessfulLoads(calls) ==
    SelectSeq(calls, LAMBDA call : call.op = "CreateGLTexture" /\ call.bReturn)

\* C16: LoadSceneTextures ignores every load's result: the twelve loads are
\* each attempted once, in the listed order, whatever fails; BindGLTextures
\* runs once, after the last attempt; the loads that succeeded occupy the
\* slots 0 .. m_loadedTextures - 1 without a gap, in load order.
C16_LoadSceneTexturesIgnoresResults ==
    (ret.op = "PrepareScene" /\ ret.before = 0) =>
        /\ Len(ret.calls) = Len(ListedTextureTags) + 1
        /\ \A i \in DOMAIN ListedTextureTags :
              /\ ret.calls[i].op = "CreateGLTexture"
              /\ ret.calls[i].tag = ListedTextureTags[i]
              /\ ret.calls[i].bReturn = (ret.colorChannels[i] \in {3, 4})
        /\ ret.calls[Len(ret.calls)].op = "BindGLTextures"
        /\ m_loadedTextures = Len(SuccessfulLoads(ret.calls))
        /\ \A c \in Cells :
              IF c < m_loadedTextures
              THEN /\ m_textureIDs[c].tag = SuccessfulLoads(ret.calls)[c + 1].tag
                   /\ m_textureIDs[c].ID # 0
              ELSE m_textureIDs[c] = NoTexture

C16_Witness ==
    /\ ret.op = "PrepareScene"
    /\ ret.before = 0
    /\ ret.colorChannels[3] = 0
    /\ ret.colorChannels[5] = 0
    /\ ret.colorChannels[12] = 4
    /\ m_loadedTextures = 10
    /\ m_textureIDs[2].tag = "desk"
    /\ m_textureIDs[9].tag = "poster"
    /\ ret.calls[13].op = "BindGLTextures"

\* the calls that add to what PrepareScene set up
SetupOps ==
    {"CreateGLTexture", "DefineObjectMaterials", "SetupSceneLights", "LoadSceneTextures",
     "LoadPlaneMesh", "LoadBoxMesh", "LoadCylinderMesh", "LoadTorusMesh"}

\* C18: RenderScene leaves the texture registry, the material list and the
\* light uniforms as they were: it makes no CreateGLTexture call, appends no
\* material and loads no mesh, however often it runs.
C18_RenderSceneKeepsSetup ==
    [][(ret'.op = "RenderScene") =>
         /\ m_textureIDs' = m_textureIDs
         /\ m_loadedTextures' = m_loadedTextures
         /\ m_objectMaterials' = m_objectMaterials
         /\ m_basicMeshes' = m_basicMeshes
         /\ glNames' = glNames
         /\ glUnits' = glUnits
         /\ \A name \in LightUniforms \cup {"bUseLighting"} : uniforms'[name] = uniforms[name]
         /\ \A i \in DOMAIN ret'.calls : ret'.calls[i].op \notin SetupOps]_vars

C18_Witness ==
    /\ ret.op = "RenderScene"
    /\ Len(ret.draws) = 22
    /\ Len(m_objectMaterials) = Len(SceneMaterials)
    /\ m_loadedTextures = 11
    /\ m_basicMeshes = SceneMeshes
    /\ uniforms["bUseLighting"] = <<1>>
    /\ \A name \in LightUniforms : uniforms[name] # <<>>

\* C19: once PrepareScene has run with every load succeeding, every texture
\* tag RenderScene asks for is in the registry, every material tag it asks
\* for is in the material list, and every mesh it draws has been loaded.
C19_SceneResourcesResolve ==
    (/\ ret.op = "RenderScene"
     /\ m_basicMeshes # {}
     /\ m_loadedTextures = Len(ListedTextureTags)) =>
        /\ \A i \in DOMAIN ret.calls :
              /\ (ret.calls[i].op = "SetShaderTexture") =>
                    /\ TextureHits(ret.calls[i].tag) # {}
                    /\ FindTextureSlot(ret.calls[i].tag) \in 0..(m_loadedTextures - 1)
              /\ (ret.calls[i].op = "SetShaderMaterial") =>
                    MaterialHits(ret.calls[i].tag) # {}
              /\ (ret.calls[i].op \in DrawOps) => (MeshOf(ret.calls[i].op) \in m_basicMeshes)
        /\ \A d \in DOMAIN ret.draws :
              /\ ret.draws[d].loaded
              /\ ret.draws[d].objectTexture # <<-1>>

C19_Witness ==
    /\ ret.op = "RenderScene"
    /\ m_basicMeshes = SceneMeshes
    /\ m_loadedTextures = Len(ListedTextureTags)
    /\ Len(m_objectMaterials) = 6
    /\ Len(ret.draws) = 22
    /\ \E d \in DOMAIN ret.draws :
          ret.draws[d].objectTexture = <<FindTextureSlot("poster")>>
    /\ FindTextureSlot("poster") = 11

\* the tags in the registry
RegisteredTags == {m_textureIDs[c].tag : c \in 0..(m_loadedTextures - 1)}

\* C21: after LoadSceneTextures, for every registered tag the texture unit
\* numbered FindTextureSlot(tag) is bound to the texture whose ID is
\* FindTextureID(tag): slot i, unit i and registry entry i are the same
\* texture.
C21_SlotUnitAndIDAgree ==
    (m_basicMeshes # {}) =>
        /\ \A tag \in RegisteredTags :
              /\ FindTextureSlot(tag) \in 0..(m_loadedTextures - 1)
              /\ FindTextureID(tag) = m_textureIDs[FindTextureSlot(tag)].ID
              /\ glUnits[FindTextureSlot(tag)] = FindTextureID(tag)
              /\ FindTextureID(tag) \in 1..glNames
        /\ \A i \in 0..(m_loadedTextures - 1) : glUnits[i] = m_textureIDs[i].ID
        /\ \A i, j \in 0..(m_loadedTextures - 1) : (i # j) => (glUnits[i] # glUnits[j])

C21_Witness ==
    /\ ret.op = "PrepareScene"
    /\ ret.colorChannels[3] = 2
    /\ ret.colorChannels[5] = 2
    /\ m_loadedTextures = 10
    /\ FindTextureSlot("poster") = 9
    /\ FindTextureID("poster") = 12
    /\ glUnits[9] = 12
    /\ glUnits[0] = 1

C23_EveryDrawTextured ==
    (ret.op = "RenderScene") =>
        /\ \A d \in DOMAIN ret.draws : ret.draws[d].bUseTexture = <<1>>
        /\ \A d \in DrawPositions(ret.calls) :
              \E j \in 1..(d - 1) :
                  /\ ret.calls[j].op = "SetShaderTexture"
                  /\ \A i \in (j + 1)..(d - 1) :
                        ret.calls[i].op \notin DrawOps \cup {"SetShaderColor"}

C23_Witness ==
    /\ ret.op = "RenderScene"
    /\ Len(ret.draws) = 22
    /\ m_loadedTextures = 0
    /\ m_basicMeshes = SceneMeshes
    /\ uniforms["bUseTexture"] = <<1>>
    /\ \E d \in DOMAIN ret.draws :
          /\ ret.draws[d].objectColor = <<<<2, 10, 10, 10>>>>
          /\ ret.draws[d].bUseTexture = <<1>>
          /\ ret.draws[d].objectTexture = <<-1>>

====
